---- MODULE Spec2Model ----
(***************************************************************************)
(* Model of the image pipeline of src/src/lib.rs: image_cpr decodes an     *)
(* image, optionally crops, resizes and watermarks it, and encodes it.     *)
(* One invocation is one behaviour; pc is the position inside image_cpr    *)
(* (and inside apply_watermark).                                           *)
(***************************************************************************)
EXTENDS Integers, Sequences, FiniteSets, TLC

\* ------------------------------------------------------------------------
\* Bounds of the model
\* ------------------------------------------------------------------------
\* Largest width/height of a decoded image, and largest small rectangle field.
MaxDim == 2

\* ------------------------------------------------------------------------
\* Option<T>: None is the empty sequence, Some(v) the one-element sequence.
\* ------------------------------------------------------------------------
None == <<>>
Some(v) == <<v>>
IsSome(o) == Len(o) = 1
IsNone(o) == Len(o) = 0
Unwrap(o) == o[1]

\* ------------------------------------------------------------------------
\* u32 arithmetic.  A u32 is kept at its full width as two 16-bit limbs.
\* ------------------------------------------------------------------------
Limb == 65536
FromNat(n) == [hi |-> n \div Limb, lo |-> n % Limb]
U32Max == [hi |-> Limb - 1, lo |-> Limb - 1]
IsSmall(a) == a.hi = 0
IsZero(a) == a.hi = 0 /\ a.lo = 0
CarryLo(a, b) == (a.lo + b.lo) \div Limb
\* a + b left unchecked (release profile): wraps modulo 2^32
WrappingAdd(a, b) == [hi |-> (a.hi + b.hi + CarryLo(a, b)) % Limb, lo |-> (a.lo + b.lo) % Limb]
\* whether a + b exceeds u32::MAX (debug profile: the addition panics)
AddOverflows(a, b) == a.hi + b.hi + CarryLo(a, b) >= Limb
Gt(a, b) == a.hi > b.hi \/ (a.hi = b.hi /\ a.lo > b.lo)
Lt(a, b) == Gt(b, a)
MinU32(a, b) == IF Gt(a, b) THEN b ELSE a
\* a - b for a >= b
SubU32(a, b) == IF a.lo >= b.lo THEN [hi |-> a.hi - b.hi, lo |-> a.lo - b.lo] ELSE [hi |-> a.hi - b.hi - 1, lo |-> a.lo + Limb - b.lo]

\* ------------------------------------------------------------------------
\* JavaScript numbers handed over by the caller, and Rust's casts of them.
\* <<"num", n>> is the integer n, <<"big", 0>> is 4294967295,
\* <<"nan", 0>> is NaN, <<"inf", 0>> is +Infinity, <<"undef", 0>> is a
\* value that is not a number (as_f64() gives None).
\* ------------------------------------------------------------------------
JsNum(n) == <<"num", n>>
JsBig == <<"big", 0>>
JsNaN == <<"nan", 0>>
JsInf == <<"inf", 0>>
JsUndef == <<"undef", 0>>

\* .as_f64().unwrap_or(0.0) as u32 : the cast saturates, NaN becomes 0
F64AsU32(v) == IF v[1] = "num" THEN (IF v[2] < 0 THEN FromNat(0) ELSE FromNat(v[2])) ELSE IF v[1] \in {"big", "inf"} THEN U32Max ELSE FromNat(0)

\* q as u8 : the cast saturates, NaN becomes 0
F64AsU8(v) == IF v[1] = "num" THEN (IF v[2] < 0 THEN 0 ELSE IF v[2] > 255 THEN 255 ELSE v[2]) ELSE IF v[1] \in {"big", "inf"} THEN 255 ELSE 0

\* f64 comparisons of the opacity percentage; every comparison with NaN is false
F64Lt0(v) == v[1] = "num" /\ v[2] < 0
F64Gt100(v) == (v[1] = "num" /\ v[2] > 100) \/ v[1] \in {"big", "inf"}

\* opacity / 100.0 : a float is <<kind, numerator, denominator>>
DivBy100(v) == <<v[1], v[2], 100>>

\* ------------------------------------------------------------------------
\* Pixels and image buffers.  A pixel is <<r, g, b, a>>, 8 bits a channel;
\* an image is its dimensions and a grid indexed by <<column, row>>.
\* ------------------------------------------------------------------------
Palette == << <<255, 0, 100, 255>>, <<0, 255, 200, 128>>, <<100, 200, 0, 0>>, <<200, 100, 255, 255>> >>
\* The pixel patterns a decoder or the resampler can produce in the model.
Seeds == {0, 1}
Positions(w, h) == (0 .. w - 1) \X (0 .. h - 1)
PatternPixel(seed, p) == Palette[((seed + p[1] + 2 * p[2]) % Len(Palette)) + 1]
MkImage(w, h, seed) == [width |-> w, height |-> h, px |-> [p \in Positions(w, h) |-> PatternPixel(seed, p)]]

\* enumerate_pixels(): row-major sequence of the positions of a w x h grid
RECURSIVE EnumPixels(_, _, _)
EnumPixels(w, h, row) == IF row >= h \/ w = 0 THEN <<>> ELSE [i \in 1 .. w |-> <<i - 1, row>>] \o EnumPixels(w, h, row + 1)

\* ------------------------------------------------------------------------
\* ImageConfig::from_js_value
\* ------------------------------------------------------------------------
\* A rectangle of JavaScript numbers read field by field into u32s
RectOfJs(r) == [x |-> F64AsU32(r.x), y |-> F64AsU32(r.y), width |-> F64AsU32(r.width), height |-> F64AsU32(r.height)]
SizeOfJs(r) == [width |-> F64AsU32(r.width), height |-> F64AsU32(r.height)]
\* position: a js Array gives its four elements, anything else [0, 0, 0, 0]
PositionOfJs(p) == IF IsSome(p) THEN [i \in 1 .. 4 |-> F64AsU32(Unwrap(p)[i])] ELSE [i \in 1 .. 4 |-> FromNat(0)]
\* .as_f64().unwrap_or(100.0)
OpacityOfJs(v) == IF v[1] = "undef" THEN JsNum(100) ELSE v
\* if opacity < 0.0 || opacity > 100.0
OpacityRejected(op) == F64Lt0(op) \/ F64Gt100(op)
\* the WatermarkConfig built from a watermark object that passed the checks
WatermarkOfJs(w) == [content |-> w.content, position |-> PositionOfJs(w.position), opacity |-> DivBy100(OpacityOfJs(w.opacity)), use_watermark_alpha |-> w.use_watermark_alpha]
\* .as_f64().map(|q| q as u8)
QualityOfJs(v) == IF v[1] = "undef" THEN None ELSE Some(F64AsU8(v))

\* The error from_js_value returns for the object c, "" when it returns Ok.
\* configs is an object, so no Reflect::get fails.
FromJsValueError(c) == IF IsNone(c.format) THEN "Input format must be a string" ELSE IF IsNone(c.watermark) THEN "" ELSE IF Unwrap(c.watermark).content = "NotUint8Array" THEN "'content' must be a Uint8Array" ELSE IF OpacityRejected(OpacityOfJs(Unwrap(c.watermark).opacity)) THEN "'opacity' must be between 0 and 100" ELSE ""

\* The ImageConfig from_js_value returns for the object c (when it returns Ok)
FromJsValue(c) == [format |-> Unwrap(c.format), crop |-> IF IsSome(c.crop) THEN Some(RectOfJs(Unwrap(c.crop))) ELSE None, size |-> IF IsSome(c.size) THEN Some(SizeOfJs(Unwrap(c.size))) ELSE None, watermark |-> IF IsSome(c.watermark) THEN Some(WatermarkOfJs(Unwrap(c.watermark))) ELSE None, output_format |-> c.output_format, quality |-> QualityOfJs(c.quality)]

\* ------------------------------------------------------------------------
\* ImageFormat::from_extension, as image_cpr calls it: the extension is
\* lower-cased and looked up in the library's table of extensions.
\* ------------------------------------------------------------------------
ToAsciiLowercase(tag) == IF tag = "PNG" THEN "png" ELSE tag
FromExtension(tag) == LET ext == ToAsciiLowercase(tag) IN IF ext \in {"jpg", "jpeg"} THEN Some("Jpeg") ELSE IF ext = "png" THEN Some("Png") ELSE IF ext = "webp" THEN Some("WebP") ELSE IF ext = "gif" THEN Some("Gif") ELSE IF ext = "bmp" THEN Some("Bmp") ELSE None

\* ------------------------------------------------------------------------
\* apply_crop
\* ------------------------------------------------------------------------
\* Mutant: the bounds test rejects a rectangle that ends on the image's edge
SumReaches(x, width, img_width) == ~Lt(WrappingAdd(x, width), FromNat(img_width))
\* x + width > img_width in u32, the sum wrapping
SumExceeds(x, width, img_width) == Gt(WrappingAdd(x, width), FromNat(img_width))
\* crop_dimms of the image library: the rectangle clamped to the image
CropDimms(img, x, y, width, height) == LET cx == MinU32(x, FromNat(img.width)) cy == MinU32(y, FromNat(img.height)) IN [x |-> cx.lo, y |-> cy.lo, width |-> MinU32(width, SubU32(FromNat(img.width), cx)).lo, height |-> MinU32(height, SubU32(FromNat(img.height), cy)).lo]
\* img.crop(x, y, width, height)
ImgCrop(img, x, y, width, height) == LET d == CropDimms(img, x, y, width, height) IN [width |-> d.width, height |-> d.height, px |-> [p \in Positions(d.width, d.height) |-> img.px[<<d.x + p[1], d.y + p[2]>>]]]
\* The outcome of the bounds test of apply_crop and apply_watermark:
\* "panic" when an addition overflows with overflow checks on, "err" when
\* the test is true, "ok" when it is false.  || evaluates its right side
\* only when the left side is false.
BoundsTest(x, y, width, height, img, checks) == IF checks /\ AddOverflows(x, width) THEN "panic" ELSE IF SumExceeds(x, width, img.width) THEN "err" ELSE IF checks /\ AddOverflows(y, height) THEN "panic" ELSE IF SumExceeds(y, height, img.height) THEN "err" ELSE "ok"
ApplyCrop(img, crop, checks) == LET t == BoundsTest(crop.x, crop.y, crop.width, crop.height, img, checks) IN IF t = "panic" THEN [status |-> "panic", error |-> "attempt to add with overflow", img |-> None] ELSE IF t = "err" THEN [status |-> "err", error |-> "Crop dimensions exceed image bounds", img |-> None] ELSE [status |-> "ok", error |-> "", img |-> Some(ImgCrop(img, crop.x, crop.y, crop.width, crop.height))]

\* ------------------------------------------------------------------------
\* apply_resize.  The Lanczos3 kernel is not computed: the result has the
\* requested dimensions and one of the pixel patterns.
\* ------------------------------------------------------------------------
ApplyResize(img, size, seed) == MkImage(size.width.lo, size.height.lo, seed)

\* ------------------------------------------------------------------------
\* apply_watermark
\* ------------------------------------------------------------------------
\* image::load_from_memory(&watermark.content): the decoded watermark
LoadFromMemory(content) == IF content = "ValidImage" THEN Some(MkImage(1, 1, 0)) ELSE None
\* (watermark_pixel[3] as f32 * watermark.opacity as f32) as u8.  The cast
\* truncates and saturates and turns NaN into 0.  Exact for the opacities
\* 0, 1/2 and 1, which single precision represents exactly.
ScaleAlpha(a, opacity) == IF opacity[1] # "num" THEN 0 ELSE IF a * opacity[2] <= 0 THEN 0 ELSE IF (a * opacity[2]) \div opacity[3] > 255 THEN 255 ELSE (a * opacity[2]) \div opacity[3]
EffectiveAlpha(watermark_pixel, watermark) == IF watermark.use_watermark_alpha THEN watermark_pixel[4] ELSE ScaleAlpha(watermark_pixel[4], watermark.opacity)
\* Channel triples <<main, watermark, alpha>> of the palette for which the
\* single-precision sum falls just below the exact integer value.
F32RoundsLow == {<<255, 0, 127>>, <<255, 0, 128>>}
\* Mutant: the two weights of the blend are exchanged
BlendChannelSwapped(main, wm, alpha) == (main * alpha + wm * (255 - alpha)) \div 255
\* (main * (1.0 - alpha_f) + watermark * alpha_f) as u8, alpha_f = alpha / 255.0
BlendChannel(main, wm, alpha) == LET q == (main * (255 - alpha) + wm * alpha) \div 255 IN IF <<main, wm, alpha>> \in F32RoundsLow THEN q - 1 ELSE q
\* lines 226-231: channels 0..2 are assigned, channel 3 is not
BlendPixel(main_pixel, watermark_pixel, alpha) == <<BlendChannel(main_pixel[1], watermark_pixel[1], alpha), BlendChannel(main_pixel[2], watermark_pixel[2], alpha), BlendChannel(main_pixel[3], watermark_pixel[3], alpha), main_pixel[4]>>
\* if main_x < img_rgba.width() && main_y < img_rgba.height()
InsideImage(main_x, main_y, img_rgba) == Lt(main_x, FromNat(img_rgba.width)) /\ Lt(main_y, FromNat(img_rgba.height))
\* One iteration of the loop of lines 215-233 for the watermark pixel at p
BlendStep(img_rgba, wm, p, x, y, watermark) == LET main_x == WrappingAdd(x, FromNat(p[1])) main_y == WrappingAdd(y, FromNat(p[2])) IN IF InsideImage(main_x, main_y, img_rgba) THEN [img_rgba EXCEPT !.px[<<main_x.lo, main_y.lo>>] = BlendPixel(@, wm.px[p], EffectiveAlpha(wm.px[p], watermark))] ELSE img_rgba
\* The positions enumerate_pixels() yields for the resized watermark
WmPixels(wm) == IF IsSmall(wm.width) /\ IsSmall(wm.height) THEN EnumPixels(wm.width.lo, wm.height.lo, 0) ELSE <<>>
\* The loop of lines 215-233 from its k-th iteration on
RECURSIVE BlendLoop(_, _, _, _, _, _)
BlendLoop(img_rgba, wm, k, x, y, watermark) == IF k > Len(WmPixels(wm)) THEN img_rgba ELSE BlendLoop(BlendStep(img_rgba, wm, WmPixels(wm)[k], x, y, watermark), wm, k + 1, x, y, watermark)
\* Whether x + wx or y + wy overflows in some iteration (a panic with overflow checks on)
LoopOverflows(wm, x, y) == \E k \in 1 .. Len(WmPixels(wm)) : AddOverflows(x, FromNat(WmPixels(wm)[k][1])) \/ AddOverflows(y, FromNat(WmPixels(wm)[k][2]))
\* resize(&watermark_img, width, height, Lanczos3): the outcomes for the
\* requested size.  A buffer with a dimension of 2^16 or more is not built
\* in the model: with pixels in it the allocation fails; with no pixels the
\* library either returns the empty buffer or fails computing its length.
ResizeWatermarkOutcomes(width, height) == IF IsSmall(width) /\ IsSmall(height) THEN {[status |-> "ok", img |-> Some([width |-> width, height |-> height, px |-> MkImage(width.lo, height.lo, s).px])] : s \in Seeds} ELSE IF IsZero(width) \/ IsZero(height) THEN {[status |-> "ok", img |-> Some([width |-> width, height |-> height, px |-> MkImage(0, 0, 0).px])], [status |-> "panic", img |-> None]} ELSE {[status |-> "panic", img |-> None]}

\* ------------------------------------------------------------------------
\* encode_image
\* ------------------------------------------------------------------------
\* img.into_rgb8(): the alpha channel is dropped
IntoRgb8(img) == [img EXCEPT !.px = [p \in DOMAIN img.px |-> <<img.px[p][1], img.px[p][2], img.px[p][3]>>]]
DefaultQuality == 80
JpegQuality(quality) == IF IsSome(quality) THEN Unwrap(quality) ELSE DefaultQuality
\* What encode_image hands to the encoder it selects; None for a format it
\* has no arm for
EncodeImage(img, format, quality) == IF format = "Jpeg" THEN Some([encoder |-> "JpegEncoder::new_with_quality", quality |-> Some(JpegQuality(quality)), compression |-> "", filter |-> "", img |-> IntoRgb8(img)]) ELSE IF format = "Png" THEN Some([encoder |-> "PngEncoder::new_with_quality", quality |-> None, compression |-> "Best", filter |-> "Paeth", img |-> img]) ELSE IF format = "WebP" THEN Some([encoder |-> "WebPEncoder::new_lossless", quality |-> None, compression |-> "", filter |-> "", img |-> img]) ELSE None
\* Mutant: the output format is always the input format
OutputFormatStrIgnoresRequest(cfg) == cfg.format
\* let output_format_str = config.output_format.unwrap_or(config.format)
OutputFormatStr(cfg) == IF IsSome(cfg.output_format) THEN Unwrap(cfg.output_format) ELSE cfg.format

\* ------------------------------------------------------------------------
\* The requests and inputs of the model
\* ------------------------------------------------------------------------
SmallJs == {JsNum(n) : n \in 0 .. MaxDim}
OffsetJs == {JsNum(0), JsNum(1), JsBig}
ExtentJs == SmallJs \cup {JsBig}
JsRect(x, y, w, h) == [x |-> x, y |-> y, width |-> w, height |-> h]
JsWatermark(content, position, opacity, alpha) == [content |-> content, position |-> position, opacity |-> opacity, use_watermark_alpha |-> alpha]
DefaultRequest == [format |-> Some("png"), crop |-> None, size |-> None, watermark |-> None, output_format |-> None, quality |-> JsUndef]
\* format tags, output tags and qualities, no geometry
FormatRequests == {[DefaultRequest EXCEPT !.format = f, !.output_format = o, !.quality = q] : f \in {None, Some("jpeg"), Some("png"), Some("webp"), Some("jpg"), Some("PNG"), Some("gif"), Some("xyz")}, o \in {None, Some("jpeg"), Some("png"), Some("webp"), Some("jpg"), Some("bmp"), Some("xyz")}, q \in {JsUndef, JsNum(50), JsNum(300)}}
\* every crop rectangle, with and without a resize after it
CropRequests == {[DefaultRequest EXCEPT !.crop = Some(JsRect(x, y, w, h)), !.size = s] : x \in OffsetJs, y \in OffsetJs, w \in ExtentJs, h \in ExtentJs, s \in {None, Some([width |-> JsNum(1), height |-> JsNum(MaxDim)])}}
\* every resize target
SizeRequests == {[DefaultRequest EXCEPT !.size = Some([width |-> w, height |-> h])] : w \in SmallJs, h \in SmallJs}
\* every watermark placement, opaque, half transparent and transparent
WatermarkRequests == {[DefaultRequest EXCEPT !.watermark = Some(JsWatermark("ValidImage", Some(<<x, y, w, h>>), o[1], o[2]))] : x \in OffsetJs, y \in OffsetJs, w \in ExtentJs, h \in ExtentJs, o \in {<<JsNum(0), FALSE>>, <<JsNum(50), FALSE>>, <<JsNum(100), FALSE>>, <<JsNum(50), TRUE>>}}
\* the values of the watermark object's fields
OpacityRequests == {[DefaultRequest EXCEPT !.watermark = Some(JsWatermark(c, p, o, FALSE))] : c \in {"ValidImage", "Garbage", "NotUint8Array"}, p \in {None, Some(<<JsNum(0), JsNum(0), JsNum(1), JsNum(1)>>), Some(<<JsNum(1), JsNum(1), JsNum(MaxDim), JsNum(MaxDim)>>)}, o \in {JsUndef, JsNum(-1), JsNum(0), JsNum(100), JsNum(150), JsNaN, JsInf}}
\* every combination of present and absent stages, each succeeding or failing
MixedRequests == {[format |-> f, crop |-> c, size |-> s, watermark |-> w, output_format |-> o, quality |-> JsUndef] : f \in {Some("png"), Some("xyz")}, c \in {None, Some(JsRect(JsNum(0), JsNum(0), JsNum(1), JsNum(1))), Some(JsRect(JsNum(1), JsNum(1), JsNum(MaxDim), JsNum(MaxDim)))}, s \in {None, Some([width |-> JsNum(MaxDim), height |-> JsNum(1)])}, w \in {None, Some(JsWatermark("ValidImage", Some(<<JsNum(0), JsNum(0), JsNum(1), JsNum(1)>>), JsNum(100), FALSE)), Some(JsWatermark("Garbage", Some(<<JsNum(0), JsNum(0), JsNum(1), JsNum(1)>>), JsNum(100), FALSE)), Some(JsWatermark("ValidImage", Some(<<JsNum(1), JsNum(0), JsNum(MaxDim), JsNum(1)>>), JsNum(150), FALSE)), Some(JsWatermark("Garbage", Some(<<JsNum(1), JsNum(1), JsNum(MaxDim), JsNum(MaxDim)>>), JsNum(50), TRUE))}, o \in {None, Some("jpeg"), Some("bmp"), Some("xyz")}}
Requests == FormatRequests \cup CropRequests \cup SizeRequests \cup WatermarkRequests \cup OpacityRequests \cup MixedRequests
\* what the bytes of input_data are
InputKinds == {"Jpeg", "Png", "WebP", "Gif", "Garbage"}

\* ------------------------------------------------------------------------
\* State
\* ------------------------------------------------------------------------
VARIABLES configs, input_data, overflow_checks, pc, config, format, img, watermark_img, resized_watermark, output_format, error, returned, executed, wm_steps

vars == <<configs, input_data, overflow_checks, pc, config, format, img, watermark_img, resized_watermark, output_format, error, returned, executed, wm_steps>>

\* configs, input_data: the arguments of image_cpr.  overflow_checks: whether
\* the build traps on integer overflow.  pc: the position in image_cpr.
\* config .. output_format: the locals of image_cpr and apply_watermark.
\* error, returned: the Err or Ok value image_cpr returns ("" / None until
\* then).  executed, wm_steps: the stages and the steps of apply_watermark
\* that have run, in order, each stage with the buffer it received and the
\* buffer it produced.
Init == /\ configs \in Requests
        /\ input_data \in InputKinds
        /\ overflow_checks \in BOOLEAN
        /\ pc = "from_js_value"
        /\ config = None
        /\ format = ""
        /\ img = None
        /\ watermark_img = None
        /\ resized_watermark = None
        /\ output_format = ""
        /\ error = ""
        /\ returned = None
        /\ executed = <<>>
        /\ wm_steps = <<>>

Cfg == Unwrap(config)
StageRecord(stage, input, output) == [stage |-> stage, input |-> input, output |-> output]
\* return Err(msg) / a trap, out of image_cpr
ReturnErr(msg) == /\ pc' = "done"
                  /\ error' = msg
\* lines 162-166 and 269: from_js_value, and the ? on its result
Parse == /\ pc = "from_js_value"
         /\ IF FromJsValueError(configs) # "" THEN ReturnErr(FromJsValueError(configs)) /\ UNCHANGED config ELSE pc' = "from_extension" /\ config' = Some(FromJsValue(configs)) /\ UNCHANGED error
         /\ UNCHANGED <<configs, input_data, overflow_checks, format, img, watermark_img, resized_watermark, output_format, returned, executed, wm_steps>>
\* Mutant: an unrecognised input tag falls back to PNG
ResolveInputFormatWithFallback == /\ pc = "from_extension"
                                  /\ pc' = "decode"
                                  /\ format' = IF IsNone(FromExtension(Cfg.format)) THEN "Png" ELSE Unwrap(FromExtension(Cfg.format))
                                  /\ UNCHANGED <<configs, input_data, overflow_checks, config, img, watermark_img, resized_watermark, output_format, error, returned, executed, wm_steps>>
\* lines 271-272
ResolveInputFormat == /\ pc = "from_extension"
                      /\ IF IsNone(FromExtension(Cfg.format)) THEN ReturnErr("Invalid input format") /\ UNCHANGED format ELSE pc' = "decode" /\ format' = Unwrap(FromExtension(Cfg.format)) /\ UNCHANGED error
                      /\ UNCHANGED <<configs, input_data, overflow_checks, config, img, watermark_img, resized_watermark, output_format, returned, executed, wm_steps>>
\* load_from_memory_with_format(input_data, format): the images it can
\* return; none when the bytes are not in that format.  Whether the GIF
\* decoder is compiled in depends on the build.
DecodedImages(data, fmt) == IF data # fmt THEN {} ELSE {MkImage(w, h, 0) : w \in 1 .. MaxDim, h \in 1 .. MaxDim}
DecodeMayFail(data, fmt) == data # fmt \/ fmt = "Gif"
\* line 275
Decode == /\ pc = "decode"
          /\ \/ /\ DecodeMayFail(input_data, format)
                /\ ReturnErr("Decode error")
                /\ executed' = Append(executed, StageRecord("Decode", None, None))
                /\ UNCHANGED img
             \/ \E d \in DecodedImages(input_data, format) :
                  /\ pc' = "crop"
                  /\ img' = Some(d)
                  /\ executed' = Append(executed, StageRecord("Decode", None, Some(d)))
                  /\ UNCHANGED error
          /\ UNCHANGED <<configs, input_data, overflow_checks, config, format, watermark_img, resized_watermark, output_format, returned, wm_steps>>

\* Mutant: a failed crop is recorded and the pipeline goes on with the uncropped buffer
CropStageIgnoresError == /\ pc = "crop"
                         /\ pc' = "resize"
                         /\ IF IsNone(Cfg.crop) THEN UNCHANGED <<img, error, executed>> ELSE LET r == ApplyCrop(Unwrap(img), Unwrap(Cfg.crop), overflow_checks) IN IF r.status = "ok" THEN img' = r.img /\ executed' = Append(executed, StageRecord("Crop", img, r.img)) /\ UNCHANGED error ELSE error' = r.error /\ executed' = Append(executed, StageRecord("Crop", img, img)) /\ UNCHANGED img
                         /\ UNCHANGED <<configs, input_data, overflow_checks, config, format, watermark_img, resized_watermark, output_format, returned, wm_steps>>
\* lines 278-280, with apply_crop
CropStage == /\ pc = "crop"
             /\ IF IsNone(Cfg.crop) THEN pc' = "resize" /\ UNCHANGED <<img, error, executed>> ELSE LET r == ApplyCrop(Unwrap(img), Unwrap(Cfg.crop), overflow_checks) IN IF r.status = "ok" THEN pc' = "resize" /\ img' = r.img /\ executed' = Append(executed, StageRecord("Crop", img, r.img)) /\ UNCHANGED error ELSE ReturnErr(r.error) /\ executed' = Append(executed, StageRecord("Crop", img, None)) /\ UNCHANGED img
             /\ UNCHANGED <<configs, input_data, overflow_checks, config, format, watermark_img, resized_watermark, output_format, returned, wm_steps>>
\* lines 283-285, with apply_resize
ResizeStage == /\ pc = "resize"
               /\ IF IsNone(Cfg.size) THEN pc' = "watermark" /\ UNCHANGED <<img, executed>> ELSE \E seed \in Seeds : pc' = "watermark" /\ img' = Some(ApplyResize(Unwrap(img), Unwrap(Cfg.size), seed)) /\ executed' = Append(executed, StageRecord("Resize", img, img'))
               /\ UNCHANGED <<configs, input_data, overflow_checks, config, format, watermark_img, resized_watermark, output_format, error, returned, wm_steps>>
\* Mutant: the watermark stage is gated on the size configuration
WatermarkStageGatedOnSize == /\ pc = "watermark"
                             /\ pc' = IF IsNone(Cfg.size) \/ IsNone(Cfg.watermark) THEN "output_format" ELSE "wm_load"
                             /\ UNCHANGED <<configs, input_data, overflow_checks, config, format, img, watermark_img, resized_watermark, output_format, error, returned, executed, wm_steps>>
\* line 288: the watermark stage is entered or skipped
WatermarkStage == /\ pc = "watermark"
                  /\ pc' = IF IsNone(Cfg.watermark) THEN "output_format" ELSE "wm_load"
                  /\ UNCHANGED <<configs, input_data, overflow_checks, config, format, img, watermark_img, resized_watermark, output_format, error, returned, executed, wm_steps>>
Wm == Unwrap(Cfg.watermark)
\* apply_watermark returns Err / traps: the stage has failed
WatermarkFails(msg) == /\ ReturnErr(msg)
                       /\ executed' = Append(executed, StageRecord("Watermark", img, None))
                       /\ UNCHANGED img
\* lines 195-196
WmLoad == /\ pc = "wm_load"
          /\ wm_steps' = Append(wm_steps, "decode")
          /\ IF IsNone(LoadFromMemory(Wm.content)) THEN WatermarkFails("Failed to load watermark") /\ UNCHANGED watermark_img ELSE pc' = "wm_bounds" /\ watermark_img' = LoadFromMemory(Wm.content) /\ UNCHANGED <<img, error, executed>>
          /\ UNCHANGED <<configs, input_data, overflow_checks, config, format, resized_watermark, output_format, returned>>
\* lines 198-206: let [x, y, width, height] = watermark.position and the test
\* (position is a [u32; 4], its length is never other than 4)
WmBoundsTest == BoundsTest(Wm.position[1], Wm.position[2], Wm.position[3], Wm.position[4], Unwrap(img), overflow_checks)
\* Mutant: an out-of-bounds placement is not rejected
WmValidateLets == /\ pc = "wm_bounds"
                  /\ wm_steps' = Append(wm_steps, "validate")
                  /\ IF WmBoundsTest = "panic" THEN WatermarkFails("attempt to add with overflow") ELSE pc' = "wm_resize" /\ UNCHANGED <<img, error, executed>>
                  /\ UNCHANGED <<configs, input_data, overflow_checks, config, format, watermark_img, resized_watermark, output_format, returned>>
WmValidate == /\ pc = "wm_bounds"
              /\ wm_steps' = Append(wm_steps, "validate")
              /\ IF WmBoundsTest = "panic" THEN WatermarkFails("attempt to add with overflow") ELSE IF WmBoundsTest = "err" THEN WatermarkFails("Watermark position exceeds image bounds") ELSE pc' = "wm_resize" /\ UNCHANGED <<img, error, executed>>
              /\ UNCHANGED <<configs, input_data, overflow_checks, config, format, watermark_img, resized_watermark, output_format, returned>>
\* lines 207-208
WmResize == /\ pc = "wm_resize"
            /\ wm_steps' = Append(wm_steps, "resize")
            /\ \E r \in ResizeWatermarkOutcomes(Wm.position[3], Wm.position[4]) : IF r.status = "ok" THEN pc' = "wm_blend" /\ resized_watermark' = r.img /\ UNCHANGED <<img, error, executed>> ELSE WatermarkFails("buffer allocation failed") /\ UNCHANGED resized_watermark
            /\ UNCHANGED <<configs, input_data, overflow_checks, config, format, watermark_img, output_format, returned>>
\* lines 210-234, and the assignment of line 289
WmBlend == /\ pc = "wm_blend"
           /\ wm_steps' = Append(wm_steps, "blend")
           /\ IF overflow_checks /\ LoopOverflows(Unwrap(resized_watermark), Wm.position[1], Wm.position[2]) THEN WatermarkFails("attempt to add with overflow") ELSE pc' = "output_format" /\ img' = Some(BlendLoop(Unwrap(img), Unwrap(resized_watermark), 1, Wm.position[1], Wm.position[2], Wm)) /\ executed' = Append(executed, StageRecord("Watermark", img, img')) /\ UNCHANGED error
           /\ UNCHANGED <<configs, input_data, overflow_checks, config, format, watermark_img, resized_watermark, output_format, returned>>
\* lines 293-295
ResolveOutputFormat == /\ pc = "output_format"
                       /\ IF IsNone(FromExtension(OutputFormatStr(Cfg))) THEN ReturnErr("Invalid output format") /\ UNCHANGED output_format ELSE pc' = "encode" /\ output_format' = Unwrap(FromExtension(OutputFormatStr(Cfg))) /\ UNCHANGED error
                       /\ UNCHANGED <<configs, input_data, overflow_checks, config, format, img, watermark_img, resized_watermark, returned, executed, wm_steps>>
\* Whether write_with_encoder can fail for the buffer: the codecs reject
\* images without pixels, or not, depending on the codec and its version.
EncoderMayFail(image) == image.width = 0 \/ image.height = 0
\* line 298, with encode_image
Encode == /\ pc = "encode"
          /\ pc' = "done"
          /\ \/ /\ IsNone(EncodeImage(Unwrap(img), output_format, Cfg.quality))
                /\ error' = "Unsupported output format"
                /\ UNCHANGED returned
             \/ /\ IsSome(EncodeImage(Unwrap(img), output_format, Cfg.quality))
                /\ EncoderMayFail(Unwrap(img))
                /\ error' = "Encode error"
                /\ UNCHANGED returned
             \/ /\ IsSome(EncodeImage(Unwrap(img), output_format, Cfg.quality))
                /\ returned' = EncodeImage(Unwrap(img), output_format, Cfg.quality)
                /\ UNCHANGED error
          /\ executed' = Append(executed, StageRecord("Encode", img, returned'))
          /\ UNCHANGED <<configs, input_data, overflow_checks, config, format, img, watermark_img, resized_watermark, output_format, wm_steps>>

Next == Parse \/ ResolveInputFormat \/ Decode \/ CropStage \/ ResizeStage \/ WatermarkStage \/ WmLoad \/ WmValidate \/ WmResize \/ WmBlend \/ ResolveOutputFormat \/ Encode

Spec == Init /\ [][Next]_vars

\* ------------------------------------------------------------------------
\* Vocabulary of the properties
\* ------------------------------------------------------------------------
Done == pc = "done"
Succeeded == Done /\ IsSome(returned)
Failed == Done /\ IsNone(returned)
Ran(stage) == \E i \in 1 .. Len(executed) : executed[i].stage = stage
RecordOf(stage) == executed[CHOOSE i \in 1 .. Len(executed) : executed[i].stage = stage]
StageRank(stage) == CASE stage = "Decode" -> 1 [] stage = "Crop" -> 2 [] stage = "Resize" -> 3 [] stage = "Watermark" -> 4 [] stage = "Encode" -> 5
AfterDecode == {"crop", "resize", "watermark", "wm_load", "wm_bounds", "wm_resize", "wm_blend", "output_format", "encode"}
AfterCrop == AfterDecode \ {"crop"}
AfterResize == AfterCrop \ {"resize"}
AfterWatermark == {"output_format", "encode"}
\* the true value of a + b exceeds c (no wraparound), for c below 2^16
TrueSumExceeds(a, b, c) == AddOverflows(a, b) \/ Gt(WrappingAdd(a, b), FromNat(c))
Rgb(pixel) == <<pixel[1], pixel[2], pixel[3]>>

\* C1: the stages run in the order Decode, Crop, Resize, Watermark, Encode;
\* each executed stage receives the buffer the previous executed stage
\* produced; a stage runs exactly when its configuration is present, and a
\* skipped stage hands the buffer on unchanged.
C1_StageOrder == /\ \A i, j \in 1 .. Len(executed) : i < j => StageRank(executed[i].stage) < StageRank(executed[j].stage)
                 /\ \A i \in 2 .. Len(executed) : executed[i].input = executed[i - 1].output
                 /\ executed # <<>> => executed[1].stage = "Decode"
                 /\ (pc \in AfterCrop \/ Succeeded) => (Ran("Crop") <=> IsSome(configs.crop))
                 /\ (pc \in AfterResize \/ Succeeded) => (Ran("Resize") <=> IsSome(configs.size))
                 /\ (pc \in AfterWatermark \/ Succeeded) => (Ran("Watermark") <=> IsSome(configs.watermark))
                 /\ Succeeded => Ran("Decode") /\ Ran("Encode")
                 /\ pc \in AfterDecode => executed # <<>> /\ img = executed[Len(executed)].output
\* C1 witness: a successful run that cropped and watermarked and skipped the resize
C1_Witness == Succeeded /\ [i \in 1 .. Len(executed) |-> executed[i].stage] = <<"Decode", "Crop", "Watermark", "Encode">>

\* C2: the first failing stage ends the invocation: it is the last stage
\* executed, every stage before it succeeded, the error is one that stage
\* raises, nothing runs after it and no bytes are returned; bytes are
\* returned only when every executed stage succeeded.
StageErrors(stage) == CASE stage = "Decode" -> {"Decode error"} [] stage = "Crop" -> {"Crop dimensions exceed image bounds", "attempt to add with overflow"} [] stage = "Resize" -> {} [] stage = "Watermark" -> {"Failed to load watermark", "Watermark position exceeds image bounds", "attempt to add with overflow", "buffer allocation failed"} [] stage = "Encode" -> {"Unsupported output format", "Encode error"}
C2_FailFast == /\ error # "" => Done /\ IsNone(returned)
               /\ Done => ~ENABLED Next
               /\ \A i \in 1 .. Len(executed) : IsNone(executed[i].output) => i = Len(executed) /\ Done /\ error \in StageErrors(executed[i].stage)
               /\ IsSome(returned) => error = "" /\ \A i \in 1 .. Len(executed) : IsSome(executed[i].output)
               /\ Done => (IsSome(returned) <=> error = "")
\* C2 witness: the crop fails although a resize and a watermark are configured
C2_Witness == Done /\ error = "Crop dimensions exceed image bounds" /\ IsSome(configs.size) /\ IsSome(configs.watermark) /\ executed[Len(executed)].stage = "Crop"

\* ------------------------------------------------------------------------
\* Rectangles against the image, in true (unbounded) arithmetic
\* ------------------------------------------------------------------------
\* the rectangle reaches beyond the image
TrulyOutOfBounds(x, y, width, height, image) == TrueSumExceeds(x, width, image.width) \/ TrueSumExceeds(y, height, image.height)
\* column/row q of the image lies in [start, start + extent)
TrulyWithin(q, start, extent) == ~Gt(start, FromNat(q)) /\ Lt(SubU32(FromNat(q), start), extent)
CropRect == Unwrap(Cfg.crop)

\* C3: a crop or watermark rectangle whose true x+width or y+height
\* exceeds the image makes apply_crop / apply_watermark fail with the
\* out-of-bounds error, also when the sum is beyond 2^32-1.
C3_NoWraparoundBypass == /\ Ran("Crop") /\ TrulyOutOfBounds(CropRect.x, CropRect.y, CropRect.width, CropRect.height, Unwrap(RecordOf("Crop").input)) => error = "Crop dimensions exceed image bounds"
                         /\ Ran("Watermark") /\ Wm.content = "ValidImage" /\ TrulyOutOfBounds(Wm.position[1], Wm.position[2], Wm.position[3], Wm.position[4], Unwrap(RecordOf("Watermark").input)) => error = "Watermark position exceeds image bounds"
\* Where the sums stay below 2^32 the out-of-bounds error is returned
C3_WithoutWraparound == /\ Ran("Crop") /\ ~AddOverflows(CropRect.x, CropRect.width) /\ ~AddOverflows(CropRect.y, CropRect.height) /\ TrulyOutOfBounds(CropRect.x, CropRect.y, CropRect.width, CropRect.height, Unwrap(RecordOf("Crop").input)) => error = "Crop dimensions exceed image bounds"
                        /\ Ran("Watermark") /\ Wm.content = "ValidImage" /\ ~AddOverflows(Wm.position[1], Wm.position[3]) /\ ~AddOverflows(Wm.position[2], Wm.position[4]) /\ TrulyOutOfBounds(Wm.position[1], Wm.position[2], Wm.position[3], Wm.position[4], Unwrap(RecordOf("Watermark").input)) => error = "Watermark position exceeds image bounds"

\* C4: a crop rectangle with x+width <= W and y+height <= H succeeds, and
\* the buffer returned is exactly width x height.
C4_CropDimensions == Ran("Crop") /\ ~TrulyOutOfBounds(CropRect.x, CropRect.y, CropRect.width, CropRect.height, Unwrap(RecordOf("Crop").input)) => /\ IsSome(RecordOf("Crop").output)
                                                                                                                                                   /\ FromNat(Unwrap(RecordOf("Crop").output).width) = CropRect.width
                                                                                                                                                   /\ FromNat(Unwrap(RecordOf("Crop").output).height) = CropRect.height
\* C4 witness: a 1 x 1 crop at offset (1, 1) of a 2 x 2 image
C4_Witness == Ran("Crop") /\ CropRect.x = FromNat(1) /\ CropRect.y = FromNat(1) /\ IsSome(RecordOf("Crop").output) /\ Unwrap(RecordOf("Crop").input).width = 2 /\ Unwrap(RecordOf("Crop").output).width = 1 /\ Unwrap(RecordOf("Crop").output).height = 1

\* C5: an opacity percentage outside [0, 100] fails the request while it
\* is constructed, before anything is decoded, so the opacity of every
\* WatermarkConfig constructed lies in [0, 1].
InUnitInterval(f) == f[1] = "num" /\ 0 <= f[2] /\ f[2] <= f[3]
OutsidePercentRange(v) == (v[1] = "num" /\ (v[2] < 0 \/ v[2] > 100)) \/ v[1] \in {"big", "inf"}
C5_RejectsOutOfRange == IsSome(configs.watermark) /\ OutsidePercentRange(Unwrap(configs.watermark).opacity) /\ pc # "from_js_value" => Done /\ IsNone(config) /\ executed = <<>> /\ wm_steps = <<>> /\ error \in {"'opacity' must be between 0 and 100", "'content' must be a Uint8Array", "Input format must be a string"}
C5_OpacityValidated == /\ C5_RejectsOutOfRange
                       /\ pc \in {"wm_load", "wm_bounds", "wm_resize", "wm_blend"} \/ Ran("Watermark") => InUnitInterval(Wm.opacity)

\* ------------------------------------------------------------------------
\* The compositing, as seen from the base image
\* ------------------------------------------------------------------------
Blended == Ran("Watermark") /\ IsSome(RecordOf("Watermark").output)
BaseBefore == Unwrap(RecordOf("Watermark").input)
BaseAfter == Unwrap(RecordOf("Watermark").output)
ResizedWm == Unwrap(resized_watermark)
\* the watermark pixel p is composited onto the base pixel q
LandsOn(p, q) == FromNat(q[1]) = WrappingAdd(Wm.position[1], FromNat(p[1])) /\ FromNat(q[2]) = WrappingAdd(Wm.position[2], FromNat(p[2]))
\* the base pixel q lies in the placement rectangle
InPlacement(q) == TrulyWithin(q[1], Wm.position[1], Wm.position[3]) /\ TrulyWithin(q[2], Wm.position[2], Wm.position[4])

\* C6: without the watermark's own alpha, opacity 0 leaves the R, G and B
\* of every base pixel as they were, and opacity 1 gives every base pixel
\* under a watermark pixel of alpha 255 that pixel's R, G and B.
C6_OpacityExtremes == Blended /\ ~Wm.use_watermark_alpha => /\ (Wm.opacity = <<"num", 0, 100>> => \A q \in DOMAIN BaseBefore.px : Rgb(BaseAfter.px[q]) = Rgb(BaseBefore.px[q]))
                                                          /\ (Wm.opacity = <<"num", 100, 100>> => \A p \in DOMAIN ResizedWm.px, q \in DOMAIN BaseBefore.px : (LandsOn(p, q) /\ ResizedWm.px[p][4] = 255 => Rgb(BaseAfter.px[q]) = Rgb(ResizedWm.px[p])))
\* C6 witness: at opacity 1 an opaque watermark pixel has replaced a base
\* pixel of another colour
C6_Witness == Blended /\ ~Wm.use_watermark_alpha /\ Wm.opacity = <<"num", 100, 100>> /\ \E p \in DOMAIN ResizedWm.px, q \in DOMAIN BaseBefore.px : LandsOn(p, q) /\ ResizedWm.px[p][4] = 255 /\ Rgb(BaseBefore.px[q]) # Rgb(ResizedWm.px[p]) /\ Rgb(BaseAfter.px[q]) = Rgb(ResizedWm.px[p])

\* C7: a successful apply_watermark keeps the dimensions and every alpha
\* value of the base image, and every channel of every pixel outside the
\* placement rectangle.
C7_Frame == Blended => /\ BaseAfter.width = BaseBefore.width /\ BaseAfter.height = BaseBefore.height
                       /\ DOMAIN BaseAfter.px = DOMAIN BaseBefore.px
                       /\ \A q \in DOMAIN BaseBefore.px : BaseAfter.px[q][4] = BaseBefore.px[q][4]
                       /\ \A q \in DOMAIN BaseBefore.px : (~InPlacement(q) => BaseAfter.px[q] = BaseBefore.px[q])
\* Where neither x+width nor y+height wraps, the frame of C7 holds
C7_FrameWithoutWraparound == Blended /\ ~AddOverflows(Wm.position[1], Wm.position[3]) /\ ~AddOverflows(Wm.position[2], Wm.position[4]) => C7_Frame

\* ------------------------------------------------------------------------
\* Format tags
\* ------------------------------------------------------------------------
SupportedTags == {"jpeg", "png", "webp"}
\* the extensions of the requests that the library's table knows
RecognisedTags == {"jpeg", "jpg", "png", "PNG", "webp", "gif", "bmp"}
\* the encoder each tag selects, "" for a tag without an encoder
EncoderOfTag(tag) == IF tag \in {"jpeg", "jpg"} THEN "JpegEncoder::new_with_quality" ELSE IF tag \in {"png", "PNG"} THEN "PngEncoder::new_with_quality" ELSE IF tag = "webp" THEN "WebPEncoder::new_lossless" ELSE ""
RequestedInputTag == Unwrap(configs.format)
RequestedOutputTag == IF IsSome(configs.output_format) THEN Unwrap(configs.output_format) ELSE Unwrap(configs.format)
FormatErrors == {"Invalid input format", "Invalid output format", "Unsupported output format"}

\* C8: a request whose input tag, or output tag when present, is not one
\* of jpeg, png, webp never succeeds, and when no stage failed for
\* another reason its error is an invalid-format error.
C8_OnlyThreeTags == Done /\ IsSome(config) /\ (RequestedInputTag \notin SupportedTags \/ RequestedOutputTag \notin SupportedTags) => IsNone(returned) /\ (error \in FormatErrors \/ \E i \in 1 .. Len(executed) : IsNone(executed[i].output))
\* C8 amended: a constructed request whose input tag the library's table
\* of extensions does not know fails with the invalid-input-format error
\* before anything is decoded; an output tag it does not know, or knows
\* for a format other than JPEG, PNG and WebP, never succeeds and fails
\* with the invalid / unsupported output format error once the earlier
\* stages have succeeded; every success uses the encoder of the resolved
\* output tag.
C8_UnrecognisedTagsFail == /\ IsSome(config) /\ pc # "from_extension" /\ RequestedInputTag \notin RecognisedTags => Done /\ error = "Invalid input format" /\ executed = <<>>
                           /\ IsSome(config) /\ RequestedOutputTag \notin RecognisedTags => IsNone(returned) /\ pc # "encode" /\ (Done /\ (\A i \in 1 .. Len(executed) : IsSome(executed[i].output)) /\ RequestedInputTag \in RecognisedTags => error = "Invalid output format")
                           /\ IsSome(config) /\ RequestedOutputTag \in RecognisedTags /\ EncoderOfTag(RequestedOutputTag) = "" => IsNone(returned) /\ (Ran("Encode") => error = "Unsupported output format")
                           /\ IsSome(returned) => Unwrap(returned).encoder = EncoderOfTag(RequestedOutputTag)
\* C8 witness: the stages succeed and the unknown output tag is rejected
C8_Witness == Done /\ error = "Invalid output format" /\ RequestedOutputTag = "xyz" /\ Ran("Decode")

\* C9: the codec is the output tag's when given and the input tag's
\* otherwise; JPEG gets the request's quality, 80 without one; PNG is
\* encoded with best compression and the Paeth filter and WebP lossless,
\* whatever the quality.
RequestedQuality == IF configs.quality = JsUndef THEN None ELSE Some(IF configs.quality[2] > 255 THEN 255 ELSE configs.quality[2])
C9_EncodeParameters == IsSome(returned) => /\ Unwrap(returned).encoder = EncoderOfTag(RequestedOutputTag)
                                           /\ (Unwrap(returned).encoder = "JpegEncoder::new_with_quality" => Unwrap(returned).quality = (IF IsSome(RequestedQuality) THEN RequestedQuality ELSE Some(80)))
                                           /\ (Unwrap(returned).encoder = "PngEncoder::new_with_quality" => Unwrap(returned).quality = None /\ Unwrap(returned).compression = "Best" /\ Unwrap(returned).filter = "Paeth")
                                           /\ (Unwrap(returned).encoder = "WebPEncoder::new_lossless" => Unwrap(returned).quality = None)
\* C9 witness: a PNG input re-encoded as JPEG at the quality requested
C9_Witness == IsSome(returned) /\ RequestedInputTag = "png" /\ RequestedOutputTag = "jpeg" /\ Unwrap(returned).quality = Some(50)

\* C10: apply_watermark decodes the watermark, resizes it, validates the
\* placement and then blends.
IsPrefix(s, t) == Len(s) <= Len(t) /\ \A i \in 1 .. Len(s) : s[i] = t[i]
C10_ResizeBeforeValidate == IsPrefix(wm_steps, <<"decode", "resize", "validate", "blend">>)
\* C10 amended: apply_watermark decodes the watermark, validates the
\* placement, resizes the watermark and then blends; undecodable bytes
\* give the decode error also for a placement out of bounds, and nothing
\* is resized or blended unless the placement passed the bounds test.
C10_WatermarkStepOrder == /\ IsPrefix(wm_steps, <<"decode", "validate", "resize", "blend">>)
                          /\ (Ran("Watermark") /\ Wm.content # "ValidImage" => error = "Failed to load watermark" /\ wm_steps = <<"decode">>)
                          /\ (Len(wm_steps) >= 3 => BoundsTest(Wm.position[1], Wm.position[2], Wm.position[3], Wm.position[4], IF Ran("Watermark") THEN Unwrap(RecordOf("Watermark").input) ELSE Unwrap(img), overflow_checks) = "ok")
\* C10 witness: all four steps have run
C10_Witness == wm_steps = <<"decode", "validate", "resize", "blend">> /\ Blended
====
